---------------------------- MODULE Spec2Model ----------------------------
(***************************************************************************)
(* timekeeper: the time / date string parsers (src/src/parser.rs), the     *)
(* three handlers (src/src/app.rs) and the record table (src/src/db.rs).   *)
(*                                                                         *)
(* A Rust string is modelled as a sequence of characters, each character a *)
(* one-element TLA+ string; "U+00E9" stands for the two-byte character     *)
(* e-acute and "U+20AC" for the three-byte euro sign, so that byte lengths *)
(* and byte-offset slices (str::len, &s[a..b]) are computed as Rust does.  *)
(* The chrono calls (parse_from_str, from_hms_opt, from_ymd_opt, format)   *)
(* are modelled by what chrono 0.4 does at the call sites in the source.   *)
(***************************************************************************)
EXTENDS Integers, Sequences, FiniteSets, TLC

VARIABLES
    ledger,   \* the rows of table `record`, in rowid order (db.rs:57-62)
    today,    \* what Local::now().date_naive() returns (parser.rs:98-100)
    result,   \* the last handler call: its outcome and what it parsed
    gen,      \* how `input` was spelled (shape, hour, minute, meridian)
    input,    \* the argument of the parser under check
    output,   \* what the parser returned for `input`
    open      \* history: the ids of the check-ins not checked out since

vars == <<ledger, today, result, gen, input, output, open>>

----------------------------------------------------------------------------
(* Bounds of the model. *)

\* Longest free-form time part (the text before an optional am/pm suffix).
MaxTimePart == 5

\* Longest free-form date string.
MaxDateLen == 5

\* Most rows the table holds before inserts are no longer explored.
MaxRecords == 2

----------------------------------------------------------------------------
(* Characters and strings. *)

DigitSeq == <<"0", "1", "2", "3", "4", "5", "6", "7", "8", "9">>

DigitChars == {DigitSeq[i] : i \in 1..10}

\* char::is_digit(10): ASCII digits only.
is_digit(c) == c \in DigitChars

DigitVal(c) == (CHOOSE i \in 1..10 : DigitSeq[i] = c) - 1

\* char::is_whitespace, restricted to the characters of the model.
is_whitespace(c) == c = " "

\* The UTF-8 width of a character.
len_utf8(c) == IF c = "U+00E9" THEN 2 ELSE IF c = "U+20AC" THEN 3 ELSE 1

RECURSIVE str_len(_)
\* str::len: the length in bytes.
str_len(s) == IF s = <<>> THEN 0 ELSE len_utf8(Head(s)) + str_len(Tail(s))

\* The byte offset at which character i of s starts (i = Len(s)+1: the end).
OffsetOf(s, i) == str_len(SubSeq(s, 1, i - 1))

\* str::is_char_boundary.
is_char_boundary(s, b) == \E i \in 1..(Len(s) + 1) : OffsetOf(s, i) = b

\* &s[a..b] for byte offsets a <= b that are character boundaries.
slice(s, a, b) ==
    LET first == CHOOSE i \in 1..(Len(s) + 1) : OffsetOf(s, i) = a
        last  == CHOOSE i \in 1..(Len(s) + 1) : OffsetOf(s, i) = b
    IN  SubSeq(s, first, last - 1)

\* Whether &s[a..b] panics: an offset out of range or inside a character.
slice_panics(s, a, b) ==
    \/ a < 0
    \/ a > b
    \/ b > str_len(s)
    \/ ~is_char_boundary(s, a)
    \/ ~is_char_boundary(s, b)

\* char::to_lowercase, for the characters of the model.
to_lower_char(c) ==
    CASE c = "A" -> "a"
      [] c = "P" -> "p"
      [] c = "M" -> "m"
      [] OTHER   -> c

\* str::to_lowercase.
to_lowercase(s) == [i \in 1..Len(s) |-> to_lower_char(s[i])]

\* str::ends_with.
ends_with(s, suffix) ==
    /\ Len(s) >= Len(suffix)
    /\ SubSeq(s, Len(s) - Len(suffix) + 1, Len(s)) = suffix

\* str::contains(char).
contains(s, c) == \E i \in 1..Len(s) : s[i] = c

RECURSIVE replace_char(_, _)
\* str::replace(c, ""): every occurrence of c removed.
replace_char(s, c) ==
    IF s = <<>> THEN <<>>
    ELSE IF Head(s) = c THEN replace_char(Tail(s), c)
    ELSE <<Head(s)>> \o replace_char(Tail(s), c)

RECURSIVE trim_start(_)
\* str::trim_start.
trim_start(s) ==
    IF s # <<>> /\ is_whitespace(Head(s)) THEN trim_start(Tail(s)) ELSE s

----------------------------------------------------------------------------
(* Results. *)

Ok(v) == [tag |-> "Ok", val |-> v]

Err(e) == [tag |-> "Err", val |-> e]

\* A panic: the call does not return.
Panic == [tag |-> "Panic", val |-> "panic"]

NoValue == [tag |-> "None", val |-> "none"]

----------------------------------------------------------------------------
(* chrono values. *)

\* NaiveTime::from_hms_opt: seconds since midnight and a fraction.
from_hms_opt(h, m, s) ==
    IF h \in 0..23 /\ m \in 0..59 /\ s \in 0..59
    THEN Ok([secs |-> h * 3600 + m * 60 + s, frac |-> 0])
    ELSE NoValue

\* Timelike::hour, minute, second.
hour(t) == t.secs \div 3600

minute(t) == (t.secs \div 60) % 60

second(t) == t.secs % 60

\* The ordering with the equal case left out: `<` written for `<=`.
time_lt(a, b) == a.secs < b.secs \/ (a.secs = b.secs /\ a.frac < b.frac)

\* NaiveTime's derived ordering: by seconds, then by fraction.
time_le(a, b) == a.secs < b.secs \/ (a.secs = b.secs /\ a.frac <= b.frac)

\* signed_duration_since(..).num_minutes(): whole minutes, towards zero.
num_minutes(a, b) ==
    LET d == a.secs - b.secs
    IN  IF d >= 0 THEN d \div 60 ELSE -((-d) \div 60)

is_leap_year(y) == (y % 4 = 0 /\ y % 100 # 0) \/ y % 400 = 0

days_in_month(y, m) ==
    CASE m \in {1, 3, 5, 7, 8, 10, 12} -> 31
      [] m \in {4, 6, 9, 11}           -> 30
      [] OTHER                         -> IF is_leap_year(y) THEN 29 ELSE 28

\* NaiveDate::from_ymd_opt.
from_ymd_opt(y, m, d) ==
    IF m \in 1..12 /\ d >= 1 /\ d <= days_in_month(y, m)
    THEN Ok([year |-> y, month |-> m, day |-> d])
    ELSE NoValue

----------------------------------------------------------------------------
(* chrono::format::parse, for the format strings the source uses.  An item *)
(* is "Y", "m", "d", "H", "I", "M", "S" (numeric), "P" (am/pm), " " (white *)
(* space) or a literal character.                                          *)

\* scan::number(s, 1, max): one to max leading ASCII digits.
scan_number(s, max) ==
    LET n  == IF Len(s) < max THEN Len(s) ELSE max
        k  == CHOOSE j \in 0..n :
                  /\ \A i \in 1..j : is_digit(s[i])
                  /\ (j = n \/ ~is_digit(s[j + 1]))
        RECURSIVE value(_)
        value(i) == IF i = 0 THEN 0 ELSE value(i - 1) * 10 + DigitVal(s[i])
    IN  IF k = 0 THEN Err("INVALID")
        ELSE Ok([n |-> value(k), rest |-> SubSeq(s, k + 1, Len(s))])

\* A numeric item other than the year: leading white space is skipped, then
\* one or two digits are read.
scan_numeric(s) == scan_number(trim_start(s), 2)

negated(r) ==
    IF r.tag # "Ok" THEN r ELSE Ok([n |-> 0 - r.val.n, rest |-> r.val.rest])

\* %Y: a signed item; without a sign at most four digits are read.
scan_signed(t) ==
    IF t # <<>> /\ Head(t) = "-" THEN negated(scan_number(Tail(t), Len(t)))
    ELSE IF t # <<>> /\ Head(t) = "+" THEN scan_number(Tail(t), Len(t))
    ELSE scan_number(t, 4)

scan_year(s) == scan_signed(trim_start(s))

\* The fields of chrono's Parsed that the formats set; Unset is None.
Unset == -1

EmptyParsed ==
    [year |-> Unset, month |-> Unset, day |-> Unset, hour_div_12 |-> Unset,
     hour_mod_12 |-> Unset, minute |-> Unset, second |-> Unset]

\* Parsed::set_year, set_month, set_day, set_hour, set_hour12, set_minute,
\* set_second.
set_field(item, n, p) ==
    CASE item = "Y" -> Ok([p EXCEPT !.year = n])
      [] item = "m" -> Ok([p EXCEPT !.month = n])
      [] item = "d" -> Ok([p EXCEPT !.day = n])
      [] item = "H" -> IF n \in 0..23
                       THEN Ok([p EXCEPT !.hour_div_12 = n \div 12,
                                         !.hour_mod_12 = n % 12])
                       ELSE Err("OUT_OF_RANGE")
      [] item = "I" -> IF n \in 1..12
                       THEN Ok([p EXCEPT !.hour_mod_12 = n % 12])
                       ELSE Err("OUT_OF_RANGE")
      [] item = "M" -> Ok([p EXCEPT !.minute = n])
      [] OTHER      -> Ok([p EXCEPT !.second = n])

with_rest(r, rest) ==
    IF r.tag # "Ok" THEN r ELSE Ok([rest |-> rest, parsed |-> r.val])

numeric_item(item, num, p) ==
    IF num.tag # "Ok" THEN num
    ELSE with_rest(set_field(item, num.val.n, p), num.val.rest)

\* %P (and %p): "am" or "pm" in either case sets the half of the day.
ampm_item(s, p) ==
    IF Len(s) < 2 THEN Err("TOO_SHORT")
    ELSE IF to_lower_char(s[1]) = "a" /\ to_lower_char(s[2]) = "m"
    THEN Ok([rest |-> SubSeq(s, 3, Len(s)), parsed |-> [p EXCEPT !.hour_div_12 = 0]])
    ELSE IF to_lower_char(s[1]) = "p" /\ to_lower_char(s[2]) = "m"
    THEN Ok([rest |-> SubSeq(s, 3, Len(s)), parsed |-> [p EXCEPT !.hour_div_12 = 1]])
    ELSE Err("INVALID")

\* A literal item: the input must start with it.
literal_item(c, s, p) ==
    IF s # <<>> /\ Head(s) = c THEN Ok([rest |-> Tail(s), parsed |-> p])
    ELSE Err("INVALID")

parse_item(item, s, p) ==
    CASE item = "Y" -> numeric_item(item, scan_year(s), p)
      [] item \in {"m", "d", "H", "I", "M", "S"} ->
                       numeric_item(item, scan_numeric(s), p)
      [] item = "P" -> ampm_item(s, p)
      [] item = " " -> Ok([rest |-> trim_start(s), parsed |-> p])
      [] OTHER      -> literal_item(item, s, p)

RECURSIVE parse_items(_, _, _)
RECURSIVE parse_rest(_, _)
\* format::parse: the items in order; nothing may be left over.
parse_items(items, s, p) ==
    IF items = <<>>
    THEN IF s = <<>> THEN Ok(p) ELSE Err("TOO_LONG")
    ELSE parse_rest(Tail(items), parse_item(Head(items), s, p))

parse_rest(items, r) ==
    IF r.tag # "Ok" THEN r ELSE parse_items(items, r.val.rest, r.val.parsed)

\* Parsed::to_naive_time: hour and minute are needed, second defaults to 0
\* and 60 is a leap second.
to_naive_time(r) ==
    IF r.tag # "Ok" THEN r
    ELSE IF r.val.hour_div_12 = Unset \/ r.val.hour_mod_12 = Unset
            \/ r.val.minute = Unset
    THEN Err("NOT_ENOUGH")
    ELSE IF r.val.minute \notin 0..59 \/ r.val.second \notin (0..60) \cup {Unset}
    THEN Err("OUT_OF_RANGE")
    ELSE [tag |-> "Ok",
          val |-> [secs |-> (r.val.hour_div_12 * 12 + r.val.hour_mod_12) * 3600
                            + r.val.minute * 60
                            + (IF r.val.second = Unset THEN 0
                               ELSE IF r.val.second = 60 THEN 59 ELSE r.val.second),
                   frac |-> IF r.val.second = 60 THEN 1000000000 ELSE 0]]

or_out_of_range(v) == IF v.tag # "Ok" THEN Err("OUT_OF_RANGE") ELSE v

\* Parsed::to_naive_date: year, month and day are needed.
to_naive_date(r) ==
    IF r.tag # "Ok" THEN r
    ELSE IF r.val.year = Unset \/ r.val.month = Unset \/ r.val.day = Unset
    THEN Err("NOT_ENOUGH")
    ELSE or_out_of_range(from_ymd_opt(r.val.year, r.val.month, r.val.day))

\* NaiveTime::parse_from_str(s, "%H:%M").
parse_HM(s) == to_naive_time(parse_items(<<"H", ":", "M">>, s, EmptyParsed))

\* NaiveTime::parse_from_str(s, "%I:%M %P").
parse_IMP(s) ==
    to_naive_time(parse_items(<<"I", ":", "M", " ", "P">>, s, EmptyParsed))

\* NaiveTime::parse_from_str(s, "%H:%M:%S").
parse_HMS(s) ==
    to_naive_time(parse_items(<<"H", ":", "M", ":", "S">>, s, EmptyParsed))

\* NaiveDate::parse_from_str(s, "%Y-%m-%d").
parse_Ymd(s) ==
    to_naive_date(parse_items(<<"Y", "-", "m", "-", "d">>, s, EmptyParsed))

\* str::parse::<u32> of a string of ASCII digits.
parse_u32(s) == scan_number(s, Len(s))

----------------------------------------------------------------------------
(* src/src/parser.rs *)

\* The date string taken as it is: the '/' are not removed.
cleaned_unchanged(date_str) == date_str

\* date_str.replace('/', "").
cleaned(date_str) == replace_char(date_str, "/")

\* NaiveDate::from_ymd_opt(current_year, month, day).ok_or_else(ParseError).
date_of(current_year, month, day) ==
    IF month.tag # "Ok" \/ day.tag # "Ok" THEN Err("ParseError")
    ELSE IF from_ymd_opt(current_year, month.val.n, day.val.n).tag # "Ok"
    THEN Err("ParseError")
    ELSE from_ymd_opt(current_year, month.val.n, day.val.n)

\* parse_date_str after the '/' are removed.
parse_cleaned(cleaned_date, current_year) ==
    IF str_len(cleaned_date) # 4
       \/ ~(\A i \in 1..Len(cleaned_date) : is_digit(cleaned_date[i]))
    THEN Err("ParseError")
    ELSE IF slice_panics(cleaned_date, 0, 2) \/ slice_panics(cleaned_date, 2, 4)
    THEN Panic
    ELSE date_of(current_year, parse_u32(slice(cleaned_date, 0, 2)),
                 parse_u32(slice(cleaned_date, 2, 4)))

\* parse_date_str(date_str), with Local::now().year() = current_year.
parse_date_str(date_str, current_year) ==
    parse_cleaned(cleaned(date_str), current_year)

\* The military form: "%H:%M" on the whole string.
military_time(time_str) == parse_HM(time_str)

\* The compact form split one byte early: &s[0..1] and &s[1..4].
compact_time_split_early(time_str) ==
    IF str_len(time_str) = 4 /\ \A i \in 1..Len(time_str) : is_digit(time_str[i])
    THEN parse_HM(slice(time_str, 0, 1) \o <<":">> \o slice(time_str, 1, 4))
    ELSE Err("ParseError")

\* The compact military form: four ASCII digits, split two and two.
compact_time(time_str) ==
    IF str_len(time_str) = 4 /\ \A i \in 1..Len(time_str) : is_digit(time_str[i])
    THEN parse_HM(slice(time_str, 0, 2) \o <<":">> \o slice(time_str, 2, 4))
    ELSE Err("ParseError")

\* The hour taken as two bytes whatever the length of the time part.
hour_part_len_two(k) == 2

\* How many bytes of a colon-less time part of k > 2 bytes are the hour.
hour_part_len(k) == IF k = 3 THEN 1 ELSE 2

\* The text handed to "%I:%M %P" for a time part and its meridian, or Panic
\* when a slice is taken inside a character.
normalized_time(time_part, meridian) ==
    IF ~contains(time_part, ":")
    THEN IF str_len(time_part) <= 2
         THEN Ok(time_part \o <<":", "0", "0", " ">> \o meridian)
         ELSE IF slice_panics(time_part, 0, hour_part_len(str_len(time_part)))
                 \/ slice_panics(time_part, str_len(time_part) - 2, str_len(time_part))
         THEN Panic
         ELSE Ok(slice(time_part, 0, hour_part_len(str_len(time_part))) \o <<":">>
                 \o slice(time_part, str_len(time_part) - 2, str_len(time_part))
                 \o <<" ">> \o meridian)
    ELSE Ok(time_part \o <<" ">> \o meridian)

\* The 12am fix-up applied to what "%I:%M %P" returned.
midnight_fix(time, meridian) ==
    IF time.tag # "Ok" THEN Err("ParseError")
    ELSE IF hour(time.val) = 12 /\ meridian = <<"a", "m">>
    THEN Ok(from_hms_opt(0, minute(time.val), 0).val)
    ELSE time

parse_normalized(norm, meridian) ==
    IF norm.tag = "Panic" THEN Panic
    ELSE midnight_fix(parse_IMP(norm.val), meridian)

\* The am/pm form: the suffix is cut off and the rest normalised.
meridian_time(time_str) ==
    IF ends_with(time_str, <<"a", "m">>) \/ ends_with(time_str, <<"p", "m">>)
    THEN IF slice_panics(time_str, str_len(time_str) - 2, str_len(time_str))
         THEN Panic
         ELSE parse_normalized(
                  normalized_time(slice(time_str, 0, str_len(time_str) - 2),
                                  slice(time_str, str_len(time_str) - 2,
                                        str_len(time_str))),
                  slice(time_str, str_len(time_str) - 2, str_len(time_str)))
    ELSE Err("ParseError")

\* The first form that parses wins; the am/pm form is tried last.
first_ok(military, compact, meridian) ==
    IF military.tag = "Ok" THEN military
    ELSE IF compact.tag = "Ok" THEN compact
    ELSE IF meridian.tag = "Ok" \/ meridian.tag = "Panic" THEN meridian
    ELSE Err("ParseError")

parse_lowered(time_str) ==
    first_ok(military_time(time_str), compact_time(time_str), meridian_time(time_str))

\* parse_time_str(val).
parse_time_str(val) == parse_lowered(to_lowercase(val))

\* get_today().
get_today == today

----------------------------------------------------------------------------
(* chrono formatting and the stored text forms (src/src/db.rs). *)

\* Two-digit and shortest decimal spellings.
Digits2(n) == <<DigitSeq[(n \div 10) + 1], DigitSeq[(n % 10) + 1]>>

Digits1(n) == IF n < 10 THEN <<DigitSeq[n + 1]>> ELSE Digits2(n)

\* format("%H:%M:%S").
format_HMS(t) ==
    Digits2(hour(t)) \o <<":">> \o Digits2(minute(t)) \o <<":">> \o Digits2(second(t))

\* format("%Y-%m-%d"), for the years 0..9999 (four digits, zero padded).
format_Ymd(d) ==
    Digits2(d.year \div 100) \o Digits2(d.year % 100) \o <<"-">>
        \o Digits2(d.month) \o <<"-">> \o Digits2(d.day)

row_of(id, ci, co, d) ==
    IF ci.tag # "Ok" \/ co.tag # "Ok" \/ d.tag # "Ok" THEN Panic
    ELSE Ok([id |-> id, check_in |-> ci.val, check_out |-> co.val, date |-> d.val])

\* Record::from_row: the stored texts parsed back; each unwrap may panic.
from_row(row) ==
    row_of(row.id, parse_HMS(row.check_in), parse_HMS(row.check_out),
           parse_Ymd(row.date))

\* The rowid SQLite gives an inserted row: one more than the largest in use.
next_rowid(rows) ==
    IF rows = <<>> THEN 1
    ELSE 1 + (CHOOSE n \in {rows[i].id : i \in 1..Len(rows)} :
                 \A i \in 1..Len(rows) : rows[i].id <= n)

\* The texts bound to the statement's parameters.
stored(id, record) ==
    [id        |-> id,
     check_in  |-> format_HMS(record.check_in),
     check_out |-> format_HMS(record.check_out),
     date      |-> format_Ymd(record.date)]

\* save_entry: INSERT INTO record (check_in, check_out, date).
save_entry(rows, record) == Append(rows, stored(next_rowid(rows), record))

\* get_entries_by_date: SELECT * FROM record WHERE date = ?, in rowid order.
get_entries_by_date(rows, date) ==
    SelectSeq(rows, LAMBDA row : row.date = format_Ymd(date))

\* update_entry without its WHERE clause: every row is rewritten.
update_entry_every_row(rows, record) ==
    [i \in 1..Len(rows) |-> stored(rows[i].id, record)]

\* update_entry: UPDATE record SET check_in, check_out, date WHERE id = ?.
update_entry(rows, record) ==
    [i \in 1..Len(rows) |->
        IF rows[i].id = record.id THEN stored(rows[i].id, record) ELSE rows[i]]

----------------------------------------------------------------------------
(* src/src/app.rs: the handlers.  A call yields the table it leaves and   *)
(* what it returned; `result` also keeps the values it parsed.            *)

\* `row` is the id of the row the call wrote, 0 when it wrote none.
Outcome(rows, op, status, check_in, check_out, date, minutes, row) ==
    [ledger |-> rows,
     result |-> [op |-> op, status |-> status, check_in |-> check_in,
                 check_out |-> check_out, date |-> date, minutes |-> minutes,
                 row |-> row]]

Failed(rows, op, status, check_in, check_out, date) ==
    Outcome(rows, op, status, check_in, check_out, date, NoValue, 0)

\* The status a parser's failure gives the call.
status_of(r) == IF r.tag = "Panic" THEN "Panic" ELSE "ParseError"

\* The date of handle_check_in / handle_check_out: Some(text) or None.
date_or_today(date) ==
    IF date.tag = "Ok" THEN parse_Ymd(date.val) ELSE Ok(get_today)

\* handle_check_in from the date on: the record is built and saved.
check_in_dated(rows, check_in, d) ==
    IF d.tag # "Ok"
    THEN Failed(rows, "check_in", "ParseError", check_in, NoValue, NoValue)
    ELSE Outcome(save_entry(rows, [id |-> 0, check_in |-> check_in.val,
                                   check_out |-> check_in.val, date |-> d.val]),
                 "check_in", "Ok", check_in, NoValue, d, NoValue, next_rowid(rows))

check_in_parsed(rows, check_in, date) ==
    IF check_in.tag # "Ok"
    THEN Failed(rows, "check_in", status_of(check_in), NoValue, NoValue, NoValue)
    ELSE check_in_dated(rows, check_in, date_or_today(date))

\* handle_check_in(time_str, date) on the table `rows`.
check_in_call(rows, time_str, date) ==
    check_in_parsed(rows, parse_time_str(time_str), date)

\* handle_check_out writing before it checks the order.
check_out_latest_write_first(rows, check_out, d, latest_record) ==
    IF time_le(check_out.val, latest_record.check_in)
    THEN Failed(update_entry(rows, [id        |-> latest_record.id,
                                    check_in  |-> latest_record.check_in,
                                    check_out |-> check_out.val,
                                    date      |-> d.val]),
                "check_out", "CheckOutBeforeCheckIn",
                Ok(latest_record.check_in), check_out, d)
    ELSE Outcome(update_entry(rows, [id        |-> latest_record.id,
                                     check_in  |-> latest_record.check_in,
                                     check_out |-> check_out.val,
                                     date      |-> d.val]),
                 "check_out", "Ok", Ok(latest_record.check_in), check_out, d,
                 Ok(num_minutes(check_out.val, latest_record.check_in)),
                 latest_record.id)

\* handle_check_out from the ordering check on.
check_out_latest(rows, check_out, d, latest_record) ==
    IF time_le(check_out.val, latest_record.check_in)
    THEN Failed(rows, "check_out", "CheckOutBeforeCheckIn",
                Ok(latest_record.check_in), check_out, d)
    ELSE Outcome(update_entry(rows, [id        |-> latest_record.id,
                                     check_in  |-> latest_record.check_in,
                                     check_out |-> check_out.val,
                                     date      |-> d.val]),
                 "check_out", "Ok", Ok(latest_record.check_in), check_out, d,
                 Ok(num_minutes(check_out.val, latest_record.check_in)),
                 latest_record.id)

\* handle_check_out on the records of the date: the last one is the latest.
check_out_records(rows, check_out, d, records) ==
    IF \E i \in 1..Len(records) : records[i].tag # "Ok"
    THEN Failed(rows, "check_out", "Panic", NoValue, check_out, d)
    ELSE IF records = <<>>
    THEN Failed(rows, "check_out", "NoCheckInRecord", NoValue, check_out, d)
    ELSE check_out_latest(rows, check_out, d, records[Len(records)].val)

rows_to_records(found) == [i \in 1..Len(found) |-> from_row(found[i])]

check_out_dated(rows, check_out, d) ==
    IF d.tag # "Ok"
    THEN Failed(rows, "check_out", "ParseError", NoValue, check_out, NoValue)
    ELSE check_out_records(rows, check_out, d,
                           rows_to_records(get_entries_by_date(rows, d.val)))

check_out_parsed(rows, check_out, date) ==
    IF check_out.tag # "Ok"
    THEN Failed(rows, "check_out", status_of(check_out), NoValue, NoValue, NoValue)
    ELSE check_out_dated(rows, check_out, date_or_today(date))

\* handle_check_out(time_str, date) on the table `rows`.
check_out_call(rows, time_str, date) ==
    check_out_parsed(rows, parse_time_str(time_str), date)

\* The date of handle_record: Some(MMDD text) or None.
record_date(date_str) ==
    IF date_str.tag = "Ok" THEN parse_date_str(date_str.val, get_today.year)
    ELSE Ok(get_today)

\* handle_record from the date on: the record is built and saved.
record_dated(rows, check_in, check_out, d) ==
    IF d.tag # "Ok"
    THEN Failed(rows, "record", status_of(d), check_in, check_out, NoValue)
    ELSE Outcome(save_entry(rows, [id |-> 0, check_in |-> check_in.val,
                                   check_out |-> check_out.val, date |-> d.val]),
                 "record", "Ok", check_in, check_out, d,
                 Ok(num_minutes(check_out.val, check_in.val)), next_rowid(rows))

\* handle_record without its ordering check.
record_parsed_unchecked(rows, check_in, check_out, date_str) ==
    IF check_in.tag # "Ok"
    THEN Failed(rows, "record", status_of(check_in), NoValue, NoValue, NoValue)
    ELSE IF check_out.tag # "Ok"
    THEN Failed(rows, "record", status_of(check_out), check_in, NoValue, NoValue)
    ELSE record_dated(rows, check_in, check_out, record_date(date_str))

\* handle_record once both times are parsed: the ordering check, then the date.
record_parsed(rows, check_in, check_out, date_str) ==
    IF check_in.tag # "Ok"
    THEN Failed(rows, "record", status_of(check_in), NoValue, NoValue, NoValue)
    ELSE IF check_out.tag # "Ok"
    THEN Failed(rows, "record", status_of(check_out), check_in, NoValue, NoValue)
    ELSE IF time_le(check_out.val, check_in.val)
    THEN Failed(rows, "record", "CheckOutBeforeCheckIn", check_in, check_out, NoValue)
    ELSE record_dated(rows, check_in, check_out, record_date(date_str))

\* handle_record(check_in_str, check_out_str, date_str) on the table `rows`.
record_call(rows, check_in_str, check_out_str, date_str) ==
    record_parsed(rows, parse_time_str(check_in_str), parse_time_str(check_out_str),
                  date_str)

\* The step a call makes: the table it leaves and what it returned.
Returns(r) ==
    /\ ledger' = r.ledger
    /\ result' = r.result
    /\ open' = IF r.result.status = "Ok" /\ r.result.op = "check_in"
               THEN open \cup {r.result.row}
               ELSE IF r.result.status = "Ok" /\ r.result.op = "check_out"
               THEN open \ {r.result.row}
               ELSE open
    /\ UNCHANGED <<today, gen, input, output>>

handle_check_in(time_str, date) == Returns(check_in_call(ledger, time_str, date))

handle_check_out(time_str, date) == Returns(check_out_call(ledger, time_str, date))

handle_record(check_in_str, check_out_str, date_str) ==
    Returns(record_call(ledger, check_in_str, check_out_str, date_str))

\* The time arguments explored: 09:00, 17:30, midnight and a value out of
\* range.
TimeArgs ==
    {<<"9", "a", "m">>, <<"5", "3", "0", "p", "m">>, <<"1", "2", "A", "M">>,
     <<"2", "5", ":", "0", "0">>}

\* The --date arguments explored: none, an ISO date, an MMDD date.
DateArgs ==
    {NoValue,
     Ok(<<"2", "0", "2", "4", "-", "0", "3", "-", "1", "1">>),
     Ok(<<"0", "3", "1", "2">>)}

\* Before any call.
NoCall ==
    [op |-> "none", status |-> "none", check_in |-> NoValue, check_out |-> NoValue,
     date |-> NoValue, minutes |-> NoValue, row |-> 0]

\* Nothing spelled: the parsers' variables while the handlers run.
FreeForm == [shape |-> "free", h |-> 0, m |-> 0, mer |-> "none"]

Init ==
    /\ ledger = <<>>
    /\ today = [year |-> 2024, month |-> 3, day |-> 12]
    /\ result = NoCall
    /\ gen = FreeForm
    /\ input = <<>>
    /\ output = NoValue
    /\ open = {}

\* main's dispatch (main.rs:26-35); inserts stop at MaxRecords rows.
Next ==
    \/ /\ Len(ledger) < MaxRecords
       /\ \E t \in TimeArgs, d \in DateArgs : handle_check_in(t, d)
    \/ \E t \in TimeArgs, d \in DateArgs : handle_check_out(t, d)
    \/ /\ Len(ledger) < MaxRecords
       /\ \E a \in TimeArgs, b \in TimeArgs, d \in DateArgs : handle_record(a, b, d)

Spec == Init /\ [][Next]_vars

\* The ordering check over a grid of times: from the empty table, one
\* check-in or one record, then check-outs.
GridTimes ==
    {Digits2(h) \o <<":">> \o Digits2(m) : h \in {0, 9, 17, 23}, m \in {0, 1, 30, 59}}

NextValidate ==
    \/ /\ ledger = <<>>
       /\ \E t \in GridTimes : handle_check_in(t, NoValue)
    \/ \E t \in GridTimes : handle_check_out(t, NoValue)
    \/ /\ ledger = <<>>
       /\ \E a \in GridTimes, b \in GridTimes : handle_record(a, b, NoValue)

SpecValidate == Init /\ [][NextValidate]_vars

----------------------------------------------------------------------------
(* The parsers on their own: one input, parsed once. *)

MeridianText(mer) ==
    CASE mer = "am" -> <<"a", "m">>
      [] mer = "pm" -> <<"p", "m">>
      [] mer = "AM" -> <<"A", "M">>
      [] OTHER      -> <<"P", "M">>

Shapes24 == {"HH:MM", "H:MM", "HHMM"}

ShapesMeridian == {"h", "h:mm", "hh:mm", "hmm", "hhmm"}

\* The spelling of hour h, minute m in a shape.
Spell(shape, h, m, mer) ==
    CASE shape = "HH:MM" -> Digits2(h) \o <<":">> \o Digits2(m)
      [] shape = "H:MM"  -> Digits1(h) \o <<":">> \o Digits2(m)
      [] shape = "HHMM"  -> Digits2(h) \o Digits2(m)
      [] shape = "h"     -> Digits1(h) \o MeridianText(mer)
      [] shape = "h:mm"  -> Digits1(h) \o <<":">> \o Digits2(m) \o MeridianText(mer)
      [] shape = "hh:mm" -> Digits2(h) \o <<":">> \o Digits2(m) \o MeridianText(mer)
      [] shape = "hmm"   -> Digits1(h) \o Digits2(m) \o MeridianText(mer)
      [] OTHER           -> Digits2(h) \o Digits2(m) \o MeridianText(mer)

\* Every well-formed spelling: 24-hour times and 12-hour times.
Spellings ==
    [shape : Shapes24, h : 0..23, m : 0..59, mer : {"none"}]
    \cup {g \in [shape : ShapesMeridian, h : 1..12, m : 0..59,
                 mer : {"am", "pm", "AM", "PM"}] :
             /\ g.shape = "h" => g.m = 0
             /\ g.shape = "hmm" => g.h < 10}

\* The characters free-form time strings are made of.
TimeChars == {"0", "1", "2", "6", ":", " ", "U+00E9"}

TimeSuffixes == {<<>>, <<"a", "m">>, <<"p", "m">>}

Strings(chars, n) == UNION {[1..k -> chars] : k \in 0..n}

FreeTimes == {p \o sfx : p \in Strings(TimeChars, MaxTimePart), sfx \in TimeSuffixes}

InitTime ==
    /\ ledger = <<>>
    /\ today = [year |-> 2024, month |-> 3, day |-> 12]
    /\ result = NoCall
    /\ output = NoValue
    /\ open = {}
    /\ \/ /\ gen \in Spellings
          /\ input = Spell(gen.shape, gen.h, gen.m, gen.mer)
       \/ /\ gen = FreeForm
          /\ input \in FreeTimes

\* One call of parse_time_str.
ParseTime ==
    /\ output = NoValue
    /\ output' = parse_time_str(input)
    /\ UNCHANGED <<ledger, today, result, gen, input, open>>

SpecTime == InitTime /\ [][ParseTime]_vars

\* The current years date strings are parsed in: a leap year and a common one.
Years == {2023, 2024}

DateChars == {"0", "1", "2", "3", "9", "/", "x", "U+00E9"}

InitDate ==
    /\ ledger = <<>>
    /\ today \in {[year |-> y, month |-> 3, day |-> 12] : y \in Years}
    /\ result = NoCall
    /\ output = NoValue
    /\ open = {}
    /\ gen = FreeForm
    /\ input \in Strings(DateChars, MaxDateLen)

\* One call of parse_date_str; the year is read from the clock.
ParseDate ==
    /\ output = NoValue
    /\ output' = parse_date_str(input, get_today.year)
    /\ UNCHANGED <<ledger, today, result, gen, input, open>>

SpecDate == InitDate /\ [][ParseDate]_vars

----------------------------------------------------------------------------
(* What the claims are stated with. *)

\* b is strictly later than a, by hour and then by minute.
Later(a, b) == hour(b) > hour(a) \/ (hour(b) = hour(a) /\ minute(b) > minute(a))

\* The 24-hour hour of hour h of the 12-hour clock.
Hour24(h, mer) ==
    IF mer \in {"am", "AM"} THEN (IF h = 12 THEN 0 ELSE h)
    ELSE (IF h = 12 THEN 12 ELSE h + 12)

\* The shapes that can spell hour h, minute m.
CanSpell(shape, h, m) ==
    /\ shape = "H:MM" => h < 10
    /\ shape = "hmm" => h < 10
    /\ shape = "h" => m = 0

AllDigits(s) == \A i \in 1..Len(s) : s[i] \in DigitChars

\* The number one or two digits spell.
Number(s) ==
    IF Len(s) = 1 THEN DigitVal(s[1]) ELSE DigitVal(s[1]) * 10 + DigitVal(s[2])

\* s is H:MM or HH:MM with the hour in `hours` and the minute in 0..59.
ColonShape(s, hours) ==
    \E k \in {1, 2} :
        /\ Len(s) = k + 3
        /\ s[k + 1] = ":"
        /\ AllDigits(SubSeq(s, 1, k))
        /\ AllDigits(SubSeq(s, k + 2, k + 3))
        /\ Number(SubSeq(s, 1, k)) \in hours
        /\ Number(SubSeq(s, k + 2, k + 3)) \in 0..59

\* s is k digits of hour then MM, the hour in `hours`, the minute in 0..59.
CompactShape(s, k, hours) ==
    /\ Len(s) = k + 2
    /\ AllDigits(s)
    /\ Number(SubSeq(s, 1, k)) \in hours
    /\ Number(SubSeq(s, k + 1, k + 2)) \in 0..59

HasMeridian(s) ==
    /\ Len(s) >= 2
    /\ SubSeq(s, Len(s) - 1, Len(s)) \in {<<"a", "m">>, <<"p", "m">>}

TimePart(s) == SubSeq(s, 1, Len(s) - 2)

\* s (lower case) is one of the recognised forms, its values in range.
WellFormedTime(s) ==
    \/ ColonShape(s, 0..23)
    \/ CompactShape(s, 2, 0..23)
    \/ /\ HasMeridian(s)
       /\ \/ /\ Len(TimePart(s)) \in {1, 2}
             /\ AllDigits(TimePart(s))
             /\ Number(TimePart(s)) \in 1..12
          \/ ColonShape(TimePart(s), 1..12)
          \/ CompactShape(TimePart(s), 1, 1..12)
          \/ CompactShape(TimePart(s), 2, 1..12)

StripSlashes(s) == SelectSeq(s, LAMBDA c : c # "/")

MonthDays(y) ==
    <<31, IF (y % 4 = 0 /\ y % 100 # 0) \/ y % 400 = 0 THEN 29 ELSE 28, 31, 30, 31,
      30, 31, 31, 30, 31, 30, 31>>

\* s is four ASCII digits MMDD that are a date of year y.
IsMMDD(s, y) ==
    /\ Len(s) = 4
    /\ AllDigits(s)
    /\ Number(SubSeq(s, 1, 2)) \in 1..12
    /\ Number(SubSeq(s, 3, 4)) \in 1..MonthDays(y)[Number(SubSeq(s, 1, 2))]

\* The record a row of the table holds.
RowRecord(row) == from_row(row).val

\* The row holds the placeholder of a check-in: check_out = check_in.
IsPlaceholder(row) == RowRecord(row).check_out = RowRecord(row).check_in

\* The ledger holds, for the date, a check-in not checked out since.
HasOpenCheckIn(rows, date) ==
    \E i \in 1..Len(rows) : rows[i].id \in open /\ rows[i].date = format_Ymd(date)

InputErrors == {"ParseError", "CheckOutBeforeCheckIn", "NoCheckInRecord"}

\* The positions of the rows of the date, in the order the query returns them.
RowsOfDate(rows, date) ==
    {i \in 1..Len(rows) : rows[i].date = format_Ymd(date)}

\* k is the position of the last row returned for the date, which is the row
\* of the date that was inserted last (the greatest id).
IsLatestOfDate(rows, date, k) ==
    /\ k \in RowsOfDate(rows, date)
    /\ \A i \in RowsOfDate(rows, date) : i <= k /\ rows[i].id <= rows[k].id

----------------------------------------------------------------------------
(* The claims. *)

\* C1: for every hour h in 0..23 and minute m in 0..59, parse_time_str
\* succeeds on 'HH:MM', on 'H:MM' (h < 10) and on 'HHMM'; the result has
\* hour h, minute m, second 0, and every 24-hour spelling of h, m gives the
\* same time.
C1_MilitarySpellings ==
    (output # NoValue /\ gen.shape \in Shapes24) =>
        /\ output.tag = "Ok"
        /\ hour(output.val) = gen.h
        /\ minute(output.val) = gen.m
        /\ second(output.val) = 0
        /\ \A sh \in Shapes24 :
               CanSpell(sh, gen.h, gen.m) =>
                   parse_time_str(Spell(sh, gen.h, gen.m, "none")) = output

\* C1: '2359' has been parsed, to 23:59.
C1_Witness ==
    /\ gen.shape = "HHMM"
    /\ input = <<"2", "3", "5", "9">>
    /\ output.tag = "Ok"
    /\ hour(output.val) = 23
    /\ minute(output.val) = 59

\* C2: for every hour h in 1..12, minute m in 0..59 and meridian,
\* parse_time_str succeeds on each meridian shape that spells h, m ('h',
\* 'h:mm', 'hh:mm', 'hmm', 'hhmm'), all shapes give the same time, its
\* minute is m and its hour is 0 for 12am, h for 1am..11am, 12 for 12pm and
\* h + 12 for 1pm..11pm.
C2_MeridianSpellings ==
    (output # NoValue /\ gen.shape \in ShapesMeridian) =>
        /\ output.tag = "Ok"
        /\ hour(output.val) = Hour24(gen.h, gen.mer)
        /\ minute(output.val) = gen.m
        /\ second(output.val) = 0
        /\ \A sh \in ShapesMeridian :
               CanSpell(sh, gen.h, gen.m) =>
                   parse_time_str(Spell(sh, gen.h, gen.m, gen.mer)) = output

\* C2: '730pm' has been parsed, to 19:30.
C2_Witness ==
    /\ gen.shape = "hmm"
    /\ input = <<"7", "3", "0", "p", "m">>
    /\ output.tag = "Ok"
    /\ hour(output.val) = 19
    /\ minute(output.val) = 30

\* C3: parse_date_str succeeds exactly when the input without its '/' is
\* four ASCII digits MMDD that are a date of the current year; the result is
\* then that month and day in the current year, and the input without its
\* '/' gives the same outcome; it returns a date or an error, nothing else.
C3_DateParses ==
    output # NoValue =>
        /\ output.tag \in {"Ok", "Err"}
        /\ output.tag = "Ok" <=> IsMMDD(StripSlashes(input), today.year)
        /\ output.tag = "Ok" =>
               output.val = [year  |-> today.year,
                             month |-> Number(SubSeq(StripSlashes(input), 1, 2)),
                             day   |-> Number(SubSeq(StripSlashes(input), 3, 4))]
        /\ parse_date_str(StripSlashes(input), today.year) = output

\* C3: '03/12' has been parsed, to March 12.
C3_Witness ==
    /\ input = <<"0", "3", "/", "1", "2">>
    /\ output.tag = "Ok"
    /\ output.val.month = 3
    /\ output.val.day = 12

\* C4: once both times are parsed, the ordering check of handle_record, and
\* of handle_check_out against the stored check-in, fails with
\* CheckOutBeforeCheckIn exactly when check_out is not strictly later than
\* check_in (hour, then minute), equal times included; a call that succeeds
\* reports the difference of the minutes of the day, which is at least 1.
C4_OrderingCheck ==
    (/\ result.op \in {"record", "check_out"}
     /\ result.check_in.tag = "Ok"
     /\ result.check_out.tag = "Ok") =>
        /\ result.status = "CheckOutBeforeCheckIn"
               <=> ~Later(result.check_in.val, result.check_out.val)
        /\ result.status \in {"Ok", "CheckOutBeforeCheckIn"}
        /\ result.status = "Ok" =>
               /\ result.minutes.tag = "Ok"
               /\ result.minutes.val =
                      (hour(result.check_out.val) * 60 + minute(result.check_out.val))
                      - (hour(result.check_in.val) * 60 + minute(result.check_in.val))
               /\ result.minutes.val >= 1

\* C4: a check-out at 17:30 of a check-in at 09:00 has succeeded: 510 minutes.
C4_Witness ==
    /\ result.op = "check_out"
    /\ result.status = "Ok"
    /\ hour(result.check_in.val) = 9
    /\ minute(result.check_in.val) = 0
    /\ result.minutes = Ok(510)

\* C5: parse_time_str fails for every input that is not one of the recognised
\* forms with its values in range: it returns no time for such an input.
C5_InvalidRejected ==
    (output # NoValue /\ ~WellFormedTime(to_lowercase(input))) => output.tag # "Ok"

\* C6: in the meridian form, a time part without a colon whose length is
\* not 1, 2, 3 or 4 is rejected: no hour and minute are taken from it.
C6_LongPartRejected ==
    (/\ output # NoValue
     /\ HasMeridian(to_lowercase(input))
     /\ ~contains(TimePart(input), ":")
     /\ Len(TimePart(input)) \notin 1..4) => output.tag # "Ok"

\* C7: parse_time_str never panics.
C7_NeverPanics == output.tag # "Panic"

\* C8, as claimed: every record of the ledger has its check_out strictly
\* later than its check_in.
C8_AllStrictlyLater ==
    \A i \in 1..Len(ledger) :
        Later(RowRecord(ledger[i]).check_in, RowRecord(ledger[i]).check_out)

\* C8, amended: every record of the ledger has its check_out strictly later
\* than its check_in, except the records handle_check_in inserted that no
\* handle_check_out has updated since: those hold check_out = check_in.
C8_LaterOrOpen ==
    \A i \in 1..Len(ledger) :
        IF ledger[i].id \in open
        THEN IsPlaceholder(ledger[i])
        ELSE Later(RowRecord(ledger[i]).check_in, RowRecord(ledger[i]).check_out)

\* C8: after a successful check-out the ledger holds the record it closed,
\* check_out later than check_in, and a check-in that is still open.
C8_Witness ==
    /\ result.op = "check_out"
    /\ result.status = "Ok"
    /\ \E i, j \in 1..Len(ledger) :
           /\ ledger[i].id \in open
           /\ ledger[j].id = result.row
           /\ Later(RowRecord(ledger[j]).check_in, RowRecord(ledger[j]).check_out)

\* C9: handle_check_out succeeds only if the ledger holds, for the target
\* date, a check-in that has not been checked out; when its arguments parse
\* and there is none it fails with NoCheckInRecord.
C9_NeedsOpenCheckIn ==
    [][result'.op = "check_out" =>
           /\ result'.status = "Ok" => HasOpenCheckIn(ledger, result'.date.val)
           /\ (/\ result'.check_out.tag = "Ok"
               /\ result'.date.tag = "Ok"
               /\ ~HasOpenCheckIn(ledger, result'.date.val))
                  => result'.status = "NoCheckInRecord"]_vars

\* C10: a call of handle_check_in, handle_check_out or handle_record that
\* returns ParseError, CheckOutBeforeCheckIn or NoCheckInRecord leaves the
\* ledger exactly as it was.
C10_ErrorsLeaveLedger ==
    [][result'.status \in InputErrors => ledger' = ledger]_vars

\* C10: a check-out has failed with CheckOutBeforeCheckIn on a ledger that
\* holds a record.
C10_Witness ==
    /\ result.op = "check_out"
    /\ result.status = "CheckOutBeforeCheckIn"
    /\ ledger # <<>>

\* C11: a successful handle_check_out changes exactly one record, the last
\* record returned for the target date (the one of that date inserted last):
\* it sets that record's check_out to the parsed time and keeps its id,
\* check_in and date; the number of records and every other record, the
\* records of other dates included, are unchanged.
C11_CheckOutFrame ==
    [][(result'.op = "check_out" /\ result'.status = "Ok") =>
           /\ Len(ledger') = Len(ledger)
           /\ \E k \in 1..Len(ledger) :
                  /\ IsLatestOfDate(ledger, result'.date.val, k)
                  /\ ledger'[k].id = result'.row
                  /\ ledger'[k] =
                         [ledger[k] EXCEPT
                              !.check_out = format_HMS(result'.check_out.val)]
                  /\ \A i \in 1..Len(ledger) : i # k => ledger'[i] = ledger[i]]_vars

\* C11: a check-out has succeeded on a ledger of two records of its date: the
\* later one holds the parsed check-out, the earlier one is a check-in that
\* is still open, with its placeholder.
C11_Witness ==
    /\ result.op = "check_out"
    /\ result.status = "Ok"
    /\ Len(ledger) = 2
    /\ ledger[1].date = ledger[2].date
    /\ ledger[2].id = result.row
    /\ ledger[2].check_out = format_HMS(result.check_out.val)
    /\ ledger[2].check_out # ledger[2].check_in
    /\ ledger[1].id \in open
    /\ IsPlaceholder(ledger[1])

=============================================================================
